---- MODULE Spec2Model ----
(***************************************************************************)
(* AETHER Mission Control dashboard (src/app.py).                          *)
(*                                                                         *)
(* The Streamlit script is re-executed top to bottom on every user         *)
(* interaction.  One action of this model is one such execution: the       *)
(* widget that triggered it, the cached resources it consults, the         *)
(* classifier outputs it reads and everything it puts on the page.         *)
(*                                                                         *)
(* Numbers: probabilities are kept in thousandths, so that the one-decimal *)
(* percentage the page prints ("{x*100:.1f}") is the integer itself;       *)
(* risk_percentage is kept as an exact fraction num/den.                   *)
(* A data frame is [names, data, nrows]: names is the header, data[i] is   *)
(* the identity of the stored column that sits at position i.              *)
(***************************************************************************)
EXTENDS Integers, Sequences, FiniteSets, TLC

VARIABLES
    model_cache,   \* st.cache_resource entry of load_model: TRUE once loaded
    data_cache,    \* st.cache_data entry of load_cloud_data: <<>> or <<entry>>
    clock,         \* wall-clock seconds since the process started
    temp, vib, fuel,   \* sidebar sliders (session state)
    enable_alarm,  \* siren checkbox (session state)
    clicked,       \* the interaction that triggered the latest run
    load,          \* load_model() in the latest run: "cached", "loaded" or "failed"
    error,         \* uncaught exception that ended the latest run, or "none"
    prediction,    \* model.predict(input_data)[0]
    probability,   \* model.predict_proba(input_data)[0][1], in thousandths
    status,        \* status line of the latest run
    confidence,    \* confidence printed in the status line, in tenths of a percent
    siren_warning, \* "Siren Active" warning shown
    df_history,    \* frame returned by load_cloud_data() in the latest run
    fetch,         \* "none" (not reached), "cached", "fetched" or "failed"
    cloud_error,   \* st.error of load_cloud_data shown (replayed from the cache too)
    history_view,  \* "none", "table" or "warning"
    trend_view,    \* "none", "chart" or "warning"
    chart_rows,    \* rows plotted by the trend chart
    audit,         \* Cloud Auditor output of the latest run
    report,        \* incident report handed to the download button
    current_value, predicted_value, trend, alert  \* forecasting dashboard

vars == <<model_cache, data_cache, clock, temp, vib, fuel, enable_alarm,
          clicked, load, error, prediction, probability, status, confidence,
          siren_warning, df_history, fetch, cloud_error, history_view,
          trend_view, chart_rows, audit, report,
          current_value, predicted_value, trend, alert>>

classifierVars == <<model_cache, data_cache, clock, temp, vib, fuel,
          enable_alarm, clicked, load, error, prediction, probability, status,
          confidence, siren_warning, df_history, fetch, cloud_error,
          history_view, trend_view, chart_rows, audit, report>>

forecastVars == <<current_value, predicted_value, trend, alert>>

(***************************************************************************)
(* Bounds                                                                  *)
(***************************************************************************)
MaxRows == 2          \* rows of a stored batch, every labelling explored
ProbSteps == 2        \* probabilities explored: k/ProbSteps
MaxClock == 12        \* the clock stops advancing here
AuditRows == 20       \* rows of a stored batch in the audit specification
AuditMaxCritical == 1 \* critical rows per batch in the audit specification
ForecastSpan == 5     \* forecast values explored around the alert threshold

(***************************************************************************)
(* Program constants                                                       *)
(***************************************************************************)
TempMin == 80
TempMax == 130
TempDefault == 100
VibMin == 40
VibMax == 70
VibDefault == 50
FuelMin == 0
FuelMax == 100
FuelDefault == 75
HeadRows == 50
RiskThreshold == 5
PerMille == 1000

SourceColumns == <<"Temperature_C", "Vibration_Hz", "Fuel_Level_%">>
CanonicalColumns == <<"Temperature", "Vibration", "Fuel">>

Labels == {0, 1}
Probs == {(k * PerMille) \div ProbSteps : k \in 0..ProbSteps}

TempValues == {TempMin, TempDefault, TempMax}
VibValues == {VibMin, VibDefault, VibMax}
FuelValues == {FuelMin, FuelDefault, FuelMax}

(***************************************************************************)
(* Data frames                                                             *)
(***************************************************************************)
EmptyFrame == [names |-> <<>>, data |-> <<>>, nrows |-> 0]

\* pd.read_csv: the header names the columns, each column holds its own data
CsvFrame(header, n) == [names |-> header, data |-> header, nrows |-> n]

IsEmptyNotNone(df) == FALSE

\* DataFrame.empty: any axis of length 0
IsEmpty(df) == Len(df.names) = 0 \/ df.nrows = 0

HasColumn(df, c) == \E i \in 1..Len(df.names) : df.names[i] = c

HasColumns(df, cols) == \A k \in 1..Len(cols) : HasColumn(df, cols[k])

ColumnIndex(df, c) == CHOOSE i \in 1..Len(df.names) : df.names[i] = c

\* df[cols].copy(): the listed columns, in the listed order
SelectColumns(df, cols) ==
    [names |-> cols,
     data |-> [k \in 1..Len(cols) |-> df.data[ColumnIndex(df, cols[k])]],
     nrows |-> df.nrows]

\* df.columns = newNames: positional rename
RenameColumns(df, newNames) == [df EXCEPT !.names = newNames]

\* df.head(k)
HeadFrame(df, k) == [df EXCEPT !.nrows = IF df.nrows < k THEN df.nrows ELSE k]

(***************************************************************************)
(* The classifier artifact (src/app.py 13-17)                              *)
(***************************************************************************)
ModelAvailableSwallowed(cached, loadOK) == TRUE

\* model = load_model(): the cached artifact, else joblib.load, whose
\* exception nothing catches
ModelAvailable(cached, loadOK) == cached \/ loadOK

(***************************************************************************)
(* Single-reading assessment (src/app.py 51-72)                            *)
(***************************************************************************)
StatusAlwaysNominal(pred) == "NOMINAL"

\* if prediction == 1: st.error(CRITICAL FAILURE) else: st.success(SYSTEM NOMINAL)
StatusOf(pred) == IF pred = 1 THEN "CRITICAL" ELSE "NOMINAL"

\* Confidence: {probability*100:.1f}% or {(1-probability)*100:.1f}%
DisplayedConfidence(pred, prob) == IF pred = 1 THEN prob ELSE PerMille - prob

\* the confidence argument of generate_report(...): probability*100
ReportConfidence(pred, prob) == prob

(***************************************************************************)
(* Incident report (src/app.py 157-193)                                    *)
(***************************************************************************)
NoReport == [generated |-> FALSE, temp |-> 0, vib |-> 0, fuel |-> 0,
             status |-> "none", action |-> "none", confidence |-> 0]

GenerateReportSwapped(t, v, f, pred, conf) ==
    [generated |-> TRUE, temp |-> t, vib |-> v, fuel |-> f,
     status |-> IF pred = 1 THEN "CRITICAL FAILURE DETECTED" ELSE "SYSTEM NOMINAL",
     action |-> IF pred = 1 THEN "Continue Monitoring."
                ELSE "Initiate Emergency Shutdown Protocol.",
     confidence |-> conf]

GenerateReport(t, v, f, pred, conf) ==
    [generated |-> TRUE, temp |-> t, vib |-> v, fuel |-> f,
     status |-> IF pred = 1 THEN "CRITICAL FAILURE DETECTED" ELSE "SYSTEM NOMINAL",
     action |-> IF pred = 1 THEN "Initiate Emergency Shutdown Protocol."
                ELSE "Continue Monitoring.",
     confidence |-> conf]

(***************************************************************************)
(* Object storage and its cache (src/app.py 20-34)                         *)
(***************************************************************************)
\* what s3.get_object + pd.read_csv do: raise, or yield a frame
StorageFailure == [ok |-> FALSE, df |-> EmptyFrame]
StorageFrame(df) == [ok |-> TRUE, df |-> df]

\* the body of load_cloud_data: any exception becomes st.error + pd.DataFrame()
LoadCloudData(storage) ==
    IF storage.ok THEN [df |-> storage.df, error |-> FALSE]
    ELSE [df |-> EmptyFrame, error |-> TRUE]

\* @st.cache_data without ttl: an entry, once stored, is served for ever
CacheHit(cache) == cache # <<>>

(***************************************************************************)
(* Cloud Auditor (src/app.py 123-154)                                      *)
(***************************************************************************)
RECURSIVE SumSeq(_)
SumSeq(s) == IF s = <<>> THEN 0 ELSE s[1] + SumSeq(Tail(s))

\* the sets of at most k of the rows 1..n
RECURSIVE RowSets(_, _)
RowSets(n, k) ==
    IF k = 0 THEN {{}}
    ELSE RowSets(n, k - 1) \cup {S \cup {i} : S \in RowSets(n, k - 1), i \in 1..n}

\* labellings model.predict can give n rows, with at most k rows critical
Labellings(n, k) ==
    {[i \in 1..n |-> IF i \in S THEN 1 ELSE 0] : S \in RowSets(n, k)}

AuditFrameInStoredOrder(df) == RenameColumns(df, CanonicalColumns)

\* audit_data = df_history[[...]].copy(); audit_data.columns = [...]
AuditFrame(df) == RenameColumns(SelectColumns(df, SourceColumns), CanonicalColumns)

RiskPercentageFloorDiv(danger, total) ==
    [num |-> (danger \div total) * 100, den |-> 1]

\* risk_percentage = (danger_count / len(bulk_predictions)) * 100
RiskPercentage(danger, total) == [num |-> danger * 100, den |-> total]

RiskFlagNonStrict(risk) ==
    IF risk.num >= RiskThreshold * risk.den THEN "elevated" ELSE "stable"

\* if risk_percentage > 5.0: st.error(...) else: st.success(...)
RiskFlag(risk) ==
    IF risk.num > RiskThreshold * risk.den THEN "elevated" ELSE "stable"

NoAudit == [state |-> "none", frame |-> EmptyFrame, predictions |-> <<>>,
            total |-> 0, danger_count |-> 0, safe_count |-> 0,
            risk |-> [num |-> 0, den |-> 1], flag |-> "none"]

AuditWarning == [NoAudit EXCEPT !.state = "warning"]

\* the audit stopped by the KeyError of the column selection
AuditFailed == [NoAudit EXCEPT !.state = "failed"]

AuditSummary(df, labels) ==
    LET danger == SumSeq(labels)
        total == Len(labels)
        risk == RiskPercentage(danger, total)
    IN [state |-> "summary", frame |-> AuditFrame(df), predictions |-> labels,
        total |-> total, danger_count |-> danger,
        safe_count |-> total - danger, risk |-> risk, flag |-> RiskFlag(risk)]

(***************************************************************************)
(* One execution of the script (src/app.py 10-207)                         *)
(*   c        the widget that triggered the run                            *)
(*   t, v, f  slider values, alarm  the siren checkbox                     *)
(*   loadOK   whether joblib.load succeeds, should it be called            *)
(*   storage  what object storage answers, should it be asked              *)
(*   pred, prob  the classifier's outputs for the slider values            *)
(*   k        most rows the classifier labels critical in an audit         *)
(* The classifier is opaque: its outputs are chosen afresh in every run,   *)
(* which covers every classifier.                                          *)
(***************************************************************************)
Script(c, t, v, f, alarm, loadOK, storage, pred, prob, k) ==
    LET loaded == ModelAvailable(model_cache, loadOK)
        hit == CacheHit(data_cache)
        entry == IF hit THEN data_cache[1]
                 ELSE [df |-> LoadCloudData(storage).df,
                       error |-> LoadCloudData(storage).error,
                       at |-> clock]
        df == entry.df
        chartFails == ~IsEmpty(df) /\ ~HasColumn(df, "Temperature_C")
        auditReached == c = "audit" /\ ~chartFails
        auditFails == auditReached /\ ~IsEmpty(df) /\ ~HasColumns(df, SourceColumns)
    IN
    /\ clicked' = c
    /\ temp' = t /\ vib' = v /\ fuel' = f
    /\ model_cache' = loaded
    /\ load' = IF model_cache THEN "cached" ELSE IF loadOK THEN "loaded" ELSE "failed"
    /\ UNCHANGED <<clock, forecastVars>>
    /\ IF ~loaded
       THEN \* line 17 raises: nothing below it runs
            /\ error' = "ModelLoadError"
            /\ prediction' = 0 /\ probability' = 0
            /\ status' = "NONE" /\ confidence' = 0
            /\ enable_alarm' = FALSE /\ siren_warning' = FALSE
            /\ df_history' = EmptyFrame /\ fetch' = "none"
            /\ cloud_error' = FALSE
            /\ history_view' = "none" /\ trend_view' = "none"
            /\ chart_rows' = 0
            /\ audit' = NoAudit /\ report' = NoReport
            /\ UNCHANGED data_cache
       ELSE \* lines 51-72
            /\ prediction' = pred /\ probability' = prob
            /\ status' = StatusOf(pred)
            /\ confidence' = DisplayedConfidence(pred, prob)
            /\ enable_alarm' = (pred = 1 /\ alarm)
            /\ siren_warning' = (pred = 1 /\ alarm)
            \* lines 79-85
            /\ data_cache' = <<entry>>
            /\ df_history' = df
            /\ fetch' = IF hit THEN "cached"
                        ELSE IF storage.ok THEN "fetched" ELSE "failed"
            /\ cloud_error' = entry.error
            /\ history_view' = IF ~IsEmpty(df) THEN "table" ELSE "warning"
            \* lines 93-115
            /\ trend_view' = IF IsEmpty(df) THEN "warning"
                             ELSE IF chartFails THEN "none" ELSE "chart"
            /\ chart_rows' = IF IsEmpty(df) \/ chartFails THEN 0
                             ELSE HeadFrame(df, HeadRows).nrows
            /\ error' = IF chartFails THEN "ValueError"
                        ELSE IF auditFails THEN "KeyError" ELSE "none"
            \* lines 123-154
            /\ IF auditReached /\ ~IsEmpty(df) /\ ~auditFails
               THEN \E labels \in Labellings(df.nrows, k) :
                        audit' = AuditSummary(df, labels)
               ELSE audit' = IF auditFails THEN AuditFailed
                             ELSE IF auditReached THEN AuditWarning
                             ELSE NoAudit
            \* lines 197-207
            /\ report' = IF c = "report" /\ ~chartFails
                         THEN GenerateReport(t, v, f, pred, ReportConfidence(pred, prob))
                         ELSE NoReport

\* the environment of one run: joblib.load is called only while the model
\* cache is empty, object storage is asked only on a cache miss
\* env.storage: the answers of object storage, env.outputs: the <<label,
\* probability>> pairs of the classifier, env.k: most critical rows per audit
Environment(c, t, v, f, alarm, env) ==
    \E loadOK \in IF model_cache THEN {TRUE} ELSE BOOLEAN :
        IF ~loadOK
        THEN Script(c, t, v, f, alarm, loadOK, StorageFailure, 0, 0, env.k)
        ELSE \E storage \in IF CacheHit(data_cache) THEN {StorageFailure}
                            ELSE env.storage,
                out \in env.outputs :
                Script(c, t, v, f, alarm, loadOK, storage, out[1], out[2], env.k)

(***************************************************************************)
(* User interactions: each triggers one run                                *)
(***************************************************************************)
\* a browser (re)load: a fresh session, every widget at its default
OpenPage(env) ==
    Environment("open", TempDefault, VibDefault, FuelDefault, FALSE, env)

\* the sliders are on the page once line 17 has passed
MoveSliders(env) ==
    /\ clicked # "init" /\ error # "ModelLoadError"
    /\ \E t \in TempValues, v \in VibValues, f \in FuelValues :
          \* one widget changes per run
          /\ \/ t # temp /\ v = vib /\ f = fuel
             \/ t = temp /\ v # vib /\ f = fuel
             \/ t = temp /\ v = vib /\ f # fuel
          /\ Environment("sliders", t, v, f, enable_alarm, env)

\* the checkbox is on the page only under a CRITICAL status
ToggleSiren(env) ==
    /\ status = "CRITICAL"
    /\ Environment("siren", temp, vib, fuel, ~enable_alarm, env)

\* the audit button is on the page once the trend section has passed
PressAudit(env) ==
    /\ clicked # "init" /\ error \in {"none", "KeyError"}
    /\ Environment("audit", temp, vib, fuel, enable_alarm, env)

\* the report button is on the page once the whole script has passed
PressReport(env) ==
    /\ clicked # "init" /\ error = "none"
    /\ Environment("report", temp, vib, fuel, enable_alarm, env)

\* time passes between interactions
Tick ==
    /\ clock < MaxClock
    /\ clock' = clock + 1
    /\ UNCHANGED <<model_cache, data_cache, temp, vib, fuel, enable_alarm,
                   clicked, load, error, prediction, probability, status, confidence,
                   siren_warning, df_history, fetch, cloud_error, history_view,
                   trend_view, chart_rows, audit, report, forecastVars>>

(***************************************************************************)
(* Specifications                                                          *)
(***************************************************************************)
\* headers a stored CSV file can have
Headers ==
    { SourceColumns,
      <<"Fuel_Level_%", "Temperature_C", "Vibration_Hz">>,
      <<"Timestamp", "Temperature_C", "Vibration_Hz", "Fuel_Level_%">>,
      <<"Temperature_C", "Fuel_Level_%">>,
      <<"Vibration_Hz", "Fuel_Level_%">> }

StorageOutcomes ==
    {StorageFailure} \cup
    {StorageFrame(CsvFrame(h, n)) : h \in Headers, n \in 0..MaxRows}

AuditStorageOutcomes ==
    {StorageFrame(CsvFrame(SourceColumns, n)) : n \in 0..AuditRows}

InitForecast ==
    /\ current_value = 0 /\ predicted_value = 0
    /\ trend = "none" /\ alert = FALSE

Init ==
    /\ model_cache = FALSE /\ data_cache = <<>> /\ clock = 0
    /\ temp = TempDefault /\ vib = VibDefault /\ fuel = FuelDefault
    /\ enable_alarm = FALSE /\ clicked = "init" /\ load = "none" /\ error = "none"
    /\ prediction = 0 /\ probability = 0 /\ status = "NONE" /\ confidence = 0
    /\ siren_warning = FALSE /\ df_history = EmptyFrame /\ fetch = "none"
    /\ cloud_error = FALSE /\ history_view = "none" /\ trend_view = "none"
    /\ chart_rows = 0 /\ audit = NoAudit /\ report = NoReport
    /\ InitForecast

MainEnv == [storage |-> StorageOutcomes, outputs |-> Labels \X Probs, k |-> MaxRows]

Next ==
    \/ OpenPage(MainEnv)
    \/ MoveSliders(MainEnv)
    \/ ToggleSiren(MainEnv)
    \/ PressAudit(MainEnv)
    \/ PressReport(MainEnv)

Spec == Init /\ [][Next]_vars

\* long batches, few critical rows, the two extreme classifier outputs
AuditEnv == [storage |-> AuditStorageOutcomes,
             outputs |-> {<<0, 0>>, <<1, PerMille>>}, k |-> AuditMaxCritical]

NextAudit ==
    \/ OpenPage(AuditEnv)
    \/ PressAudit(AuditEnv)

SpecAudit == Init /\ [][NextAudit]_vars

CacheStorageOutcomes ==
    {StorageFailure} \cup
    {StorageFrame(CsvFrame(SourceColumns, n)) : n \in 0..MaxRows}

CacheEnv == [storage |-> CacheStorageOutcomes, outputs |-> Labels \X Probs,
             k |-> MaxRows]

NextCache ==
    \/ OpenPage(CacheEnv)
    \/ PressAudit(CacheEnv)
    \/ PressReport(CacheEnv)
    \/ Tick

SpecCache == Init /\ [][NextCache]_vars

(***************************************************************************)
(* Forecasting dashboard: trend label and alert escalation                 *)
(* Temperatures in tenths of a degree.                                     *)
(***************************************************************************)
AlertThreshold == 1200
ScenarioCurrent == 1180
ScenarioPredicted == 1253

ForecastValues ==
    {AlertThreshold + d : d \in (0 - ForecastSpan)..ForecastSpan}
        \cup {ScenarioCurrent, ScenarioPredicted}

TrendOf(predicted, current) == IF predicted > current THEN "RISING" ELSE "STABLE"

AlertOfRisingOnly(predicted, current) ==
    predicted > AlertThreshold /\ predicted > current

AlertOf(predicted, current) == predicted > AlertThreshold

Forecast ==
    \E cur \in ForecastValues, pv \in ForecastValues :
        /\ current_value' = cur
        /\ predicted_value' = pv
        /\ trend' = TrendOf(pv, cur)
        /\ alert' = AlertOf(pv, cur)
        /\ UNCHANGED classifierVars

NextForecast == Forecast

SpecForecast == Init /\ [][NextForecast]_vars

(***************************************************************************)
(* Properties                                                              *)
(***************************************************************************)
Ran == clicked # "init"

\* the latest run got past line 17, so lines 51-72 ran
Assessed == Ran /\ load # "failed"

\* C1: the status line is CRITICAL exactly when the classifier label is 1 and
\* NOMINAL otherwise, whatever the probability, the cache or the history.
C1_StatusFollowsLabel ==
    Assessed =>
        /\ status = "CRITICAL" <=> prediction = 1
        /\ status = "NOMINAL" <=> prediction # 1

C1_Witness ==
    /\ Assessed /\ clicked = "sliders" /\ fetch = "cached"
    /\ prediction = 1 /\ probability = 0 /\ status = "CRITICAL"

\* the confidence in the displayed verdict
VerdictConfidence == IF prediction = 1 THEN probability ELSE PerMille - probability

\* C2: every confidence that leaves the assessment, the one in the status
\* line and the one handed to generate_report, is p under CRITICAL and 1-p
\* under NOMINAL.
C2_ConfidenceIsOfVerdict ==
    /\ Assessed => confidence = VerdictConfidence
    /\ report.generated => report.confidence = VerdictConfidence

\* C3: an audit summary counts what the classifier returned for the current
\* batch: critical + nominal = total = rows, critical = rows labelled 1,
\* risk_percentage = critical / total * 100.
C3_AuditSummaryConsistent ==
    audit.state = "summary" =>
        /\ audit.total = df_history.nrows
        /\ audit.total >= 1
        /\ Len(audit.predictions) = audit.total
        /\ audit.danger_count + audit.safe_count = audit.total
        /\ audit.danger_count =
              Cardinality({i \in 1..Len(audit.predictions) : audit.predictions[i] = 1})
        /\ audit.risk.num * audit.total = audit.danger_count * 100 * audit.risk.den

C3_Witness ==
    /\ audit.state = "summary" /\ audit.total = 2 /\ audit.danger_count = 1
    /\ audit.predictions = <<0, 1>>

\* C4: an audit shows exactly one flag: elevated when risk_percentage > 5.0,
\* stable when risk_percentage <= 5.0 (so 1 critical row of 20 is stable).
C4_RiskFlagThreshold ==
    /\ audit.state = "summary" =>
        /\ audit.flag \in {"elevated", "stable"}
        /\ audit.flag = "elevated" <=>
              audit.danger_count * 100 > RiskThreshold * audit.total
        /\ audit.flag = "stable" <=>
              audit.danger_count * 100 <= RiskThreshold * audit.total
    /\ audit.state # "summary" => audit.flag = "none"

C4_Witness ==
    /\ audit.state = "summary" /\ audit.total = 20 /\ audit.danger_count = 1
    /\ audit.flag = "stable"

\* C5: a failed or rowless fetch gives an empty dataset; with an empty dataset
\* the table, the chart and the audit are replaced by warnings, no exception
\* ends the run, and the assessment and the report still happen.
C5_NoDataIsNotAnError ==
    /\ fetch = "failed" => IsEmpty(df_history) /\ cloud_error
    /\ (fetch # "none" /\ IsEmpty(df_history)) =>
        /\ history_view = "warning"
        /\ trend_view = "warning" /\ chart_rows = 0
        /\ audit.state = IF clicked = "audit" THEN "warning" ELSE "none"
        /\ error = "none"
        /\ status \in {"CRITICAL", "NOMINAL"}
        /\ clicked = "report" => report.generated

C5_Witness ==
    /\ clicked = "audit" /\ fetch = "cached" /\ cloud_error
    /\ IsEmpty(df_history) /\ audit.state = "warning"

\* C6: a run in which the classifier artifact fails to load shows no status
\* at all, produces no report, and ends with the load's exception.
C6_NoVerdictWithoutModel ==
    /\ load = "failed" =>
        /\ status = "NONE"
        /\ ~report.generated
        /\ error = "ModelLoadError"
    /\ (Ran /\ ~model_cache) => load = "failed"

C6_Witness ==
    /\ Ran /\ load = "failed" /\ ~model_cache /\ error = "ModelLoadError"

\* C7: an audit of a non-empty dataset lacking a source column fails without
\* predictions, summary, flag or default; a summary is always computed on
\* Temperature_C, Vibration_Hz, Fuel_Level_% renamed in that order.
C7_SchemaMismatchAborts ==
    /\ (clicked = "audit" /\ ~IsEmpty(df_history)
            /\ ~HasColumns(df_history, SourceColumns)) =>
        /\ error = "KeyError"
        /\ audit.state = "failed"
        /\ audit.predictions = <<>>
        /\ audit.flag = "none"
    /\ audit.state = "summary" =>
        /\ HasColumns(df_history, SourceColumns)
        /\ audit.frame.names = CanonicalColumns
        /\ audit.frame.data = SourceColumns
        /\ audit.frame.nrows = df_history.nrows

C7_Witness ==
    /\ clicked = "audit" /\ df_history.nrows > 0
    /\ ~HasColumn(df_history, "Vibration_Hz")
    /\ error = "KeyError"

\* C8: a generated report recommends the shutdown exactly under label 1 and
\* monitoring otherwise, states the status the dashboard shows, and carries
\* the assessed slider values.
C8_ReportAgreesWithDashboard ==
    report.generated =>
        /\ report.action = "Initiate Emergency Shutdown Protocol." <=> prediction = 1
        /\ report.action = "Continue Monitoring." <=> prediction # 1
        /\ report.status = "CRITICAL FAILURE DETECTED" <=> status = "CRITICAL"
        /\ report.status = "SYSTEM NOMINAL" <=> status = "NOMINAL"
        /\ report.temp = temp /\ report.vib = vib /\ report.fuel = fuel

C8_Witness ==
    /\ report.generated /\ status = "CRITICAL" /\ temp = TempMax
    /\ report.action = "Initiate Emergency Shutdown Protocol."

\* time to live the cache is said to have, in seconds
CacheTTL == 10

\* C9: a run is served from the cache only while the cached entry is at most
\* CacheTTL seconds old; an older entry is refetched.
C9_CacheExpires ==
    [][(clock' = clock /\ fetch' = "cached") =>
           clock - data_cache[1].at <= CacheTTL]_vars

\* C10: the alert is raised exactly when the predicted value exceeds 120.0,
\* whatever the trend; the trend is RISING exactly when the predicted value
\* exceeds the current one, and STABLE otherwise.
C10_AlertIndependentOfTrend ==
    trend # "none" =>
        /\ alert <=> predicted_value > AlertThreshold
        /\ trend = "RISING" <=> predicted_value > current_value
        /\ trend = "STABLE" <=> predicted_value <= current_value

C10_Witness ==
    /\ trend = "STABLE" /\ alert
    /\ predicted_value = current_value

====
